---- MODULE Spec2Model ----
(***************************************************************************)
(* Model of src/server.py: TicTacToe3DServer, the authority server of a    *)
(* two-player 4x4x4 tic-tac-toe game.                                      *)
(*                                                                         *)
(* Spec         the server: the acceptor thread, one handler thread per    *)
(*              accepted connection, and the peers.                        *)
(* FairSpec     Spec with weak fairness on every thread of the server.     *)
(* ScenarioSpec Spec with two peers that send the moves of Script in       *)
(*              turn and never close, with weak fairness.                  *)
(* RaceSpec     Spec with _handle_message taken statement by statement.    *)
(* GameSpec     the validate+mutate section of _handle_message (lines      *)
(*              168-191) applied move after move from the initial game     *)
(*              state, without the lock and the trailing broadcast.        *)
(* CwSpec       _check_winner as a function, applied to boards drawn       *)
(*              from CwBoards.                                             *)
(***************************************************************************)
EXTENDS Integers, Sequences, FiniteSets, TLC

\* ------------------------------------------------------------------ bounds
MaxConns == 3       \* Spec: connections that reach the listening socket
MaxMsgs == 2        \* lines the handlers read from their peers, in total

\* --------------------------------------------------------------- constants
Size == 4           \* edge of the cube
max_players == 2    \* capacity of the registry

AcceptorThread == 0     \* the thread of _accept_loop; the handler of c is c

None == <<>>
Some(v) == <<v>>

Coord == 0 .. (Size - 1)
Cells == Coord \X Coord \X Coord      \* <<z, y, x>>
Slots == 0 .. (max_players - 1)
Conns == 1 .. MaxConns

Range(s) == {s[i] : i \in DOMAIN s}

\* board = [[[0 for _ in range(4)] ...]]: every cell empty
EmptyBoard == [c \in Cells |-> 0]

\* the mark of a slot: -1 for player 0, 1 for player 1
Mark(player) == IF player = 0 THEN -1 ELSE 1

\* ------------------------------------------------------------ _check_winner
\* The list `lines` in the order _check_winner builds it; a line is the
\* sequence of its 4 cells.
LineOf(f(_)) == [i \in 1 .. Size |-> f(i - 1)]

RowLines ==
    [k \in 1 .. Size * Size |->
        LET z == (k - 1) \div Size
            y == (k - 1) % Size
            C(x) == <<z, y, x>>
        IN LineOf(C)]

ColumnLines ==
    [k \in 1 .. Size * Size |->
        LET z == (k - 1) \div Size
            x == (k - 1) % Size
            C(y) == <<z, y, x>>
        IN LineOf(C)]

VerticalLines ==
    [k \in 1 .. Size * Size |->
        LET y == (k - 1) \div Size
            x == (k - 1) % Size
            C(z) == <<z, y, x>>
        IN LineOf(C)]

LayerDiagonals ==
    [k \in 1 .. 2 * Size |->
        LET z == (k - 1) \div 2
            C(i) == IF k % 2 = 1 THEN <<z, i, i>> ELSE <<z, i, (Size - 1) - i>>
        IN LineOf(C)]

XFixedDiagonals ==
    [k \in 1 .. 2 * Size |->
        LET x == (k - 1) \div 2
            C(i) == IF k % 2 = 1 THEN <<i, i, x>> ELSE <<i, (Size - 1) - i, x>>
        IN LineOf(C)]

YFixedDiagonals ==
    [k \in 1 .. 2 * Size |->
        LET y == (k - 1) \div 2
            C(i) == IF k % 2 = 1 THEN <<i, y, i>> ELSE <<i, y, (Size - 1) - i>>
        IN LineOf(C)]

\* a plausible slip: the fourth space diagonal repeats the second one
SpaceDiagonalsDup ==
    LET A(i) == <<i, i, i>>
        B(i) == <<i, i, (Size - 1) - i>>
        C(i) == <<i, (Size - 1) - i, i>>
        D(i) == <<(Size - 1) - i, (Size - 1) - i, i>>
    IN <<LineOf(A), LineOf(B), LineOf(C), LineOf(D)>>

SpaceDiagonals ==
    LET A(i) == <<i, i, i>>
        B(i) == <<i, i, (Size - 1) - i>>
        C(i) == <<i, (Size - 1) - i, i>>
        D(i) == <<(Size - 1) - i, i, i>>
    IN <<LineOf(A), LineOf(B), LineOf(C), LineOf(D)>>

Lines ==
    RowLines \o ColumnLines \o VerticalLines \o LayerDiagonals
        \o XFixedDiagonals \o YFixedDiagonals \o SpaceDiagonals

AllOf(b, line, v) == \A i \in DOMAIN line : b[line[i]] = v

\* lines 265-269, the body of the loop: the player who owns the line, if any
Uniform(b, line) ==
    IF AllOf(b, line, -1) THEN Some(0)
    ELSE IF AllOf(b, line, 1) THEN Some(1)
    ELSE None

\* lines 264-270: the loop returns at the first line of the list that one
\* player owns, and None after the last line
CheckWinner(b) ==
    LET hits == {i \in DOMAIN Lines : Uniform(b, Lines[i]) # None}
    IN IF hits = {} THEN None
       ELSE Uniform(b, Lines[CHOOSE i \in hits : \A j \in hits : i <= j])

\* ------------------------------------------- _handle_message, lines 166-191
\* A game state g is [board, current_player, winner, last_move].

\* a plausible slip: the occupied-cell test is left out
MoveRejectedNoOccupied(g, player, z, y, x) ==
    \/ g.winner # None
    \/ player # g.current_player
    \/ ~(0 <= z /\ z < Size /\ 0 <= y /\ y < Size /\ 0 <= x /\ x < Size)

\* a plausible slip: the finished-game test is left out
MoveRejectedNoWinner(g, player, z, y, x) ==
    \/ player # g.current_player
    \/ ~(0 <= z /\ z < Size /\ 0 <= y /\ y < Size /\ 0 <= x /\ x < Size)
    \/ g.board[<<z, y, x>>] # 0

\* the four early returns, in the order of the code
MoveRejected(g, player, z, y, x) ==
    \/ g.winner # None
    \/ player # g.current_player
    \/ ~(0 <= z /\ z < Size /\ 0 <= y /\ y < Size /\ 0 <= x /\ x < Size)
    \/ g.board[<<z, y, x>>] # 0

\* a plausible slip: the turn is never toggled
MoveAppliedNoToggle(g, player, z, y, x) ==
    LET b == [g.board EXCEPT ![<<z, y, x>>] = Mark(player)]
        w == CheckWinner(b)
    IN [board |-> b,
        last_move |-> <<player, z, y, x>>,
        winner |-> IF w # None THEN w ELSE g.winner,
        current_player |-> g.current_player]

\* lines 183-191: write the cell, record last_move, check for a winner,
\* set winner or toggle the turn
MoveApplied(g, player, z, y, x) ==
    LET b == [g.board EXCEPT ![<<z, y, x>>] = Mark(player)]
        w == CheckWinner(b)
    IN [board |-> b,
        last_move |-> <<player, z, y, x>>,
        winner |-> IF w # None THEN w ELSE g.winner,
        current_player |-> IF w # None THEN g.current_player
                           ELSE 1 - g.current_player]

\* -------------------------------------------------------------------- state
VARIABLES
    board,            \* self.board
    current_player,   \* self.current_player
    winner,           \* self.winner: None or Some(slot)
    last_move,        \* self.last_move: None or <<player, z, y, x>>
    clients,          \* self.clients: the records, in list order
    alive,            \* client_info["alive"] of every record
    player_id,        \* client_info["player_id"]: None until assigned
    sockOpen,         \* the server's end of the connection is not closed
    peerOpen,         \* the peer's end of the connection is not closed
    lock,             \* self.lock: None, or Some(thread) of its holder
    apc,              \* acceptor thread: position in _accept_loop
    accConn,          \* acceptor thread: client_sock of this iteration
    pc,               \* handler threads: position in _client_thread
    ctx,              \* handler threads: the call site of _broadcast_state
    snap,             \* handler threads: `state` built in _broadcast_state
    cur,              \* handler threads: the line taken from the buffer
    wire,             \* the last write: <<thread, message, connections that got it>>
    nextConn,         \* the next connection to reach the listening socket
    msgCount,         \* lines read so far
    outcome,          \* the branch the last move took in _handle_message
    ret               \* CwSpec: None, or Some(value _check_winner returned)

gameVars == <<board, current_player, winner, last_move>>
netVars == <<clients, alive, player_id, sockOpen, peerOpen, lock,
             apc, accConn, pc, ctx, snap, cur, wire, nextConn, msgCount>>
vars == <<board, current_player, winner, last_move, clients, alive,
          player_id, sockOpen, peerOpen, lock, apc, accConn,
          pc, ctx, snap, cur, wire, nextConn, msgCount, outcome, ret>>

Game == [board |-> board, current_player |-> current_player,
         winner |-> winner, last_move |-> last_move]

\* __init__, lines 33-43; no connection has arrived yet
Init ==
    /\ board = EmptyBoard
    /\ current_player = 0
    /\ winner = None
    /\ last_move = None
    /\ clients = <<>>
    /\ alive = [c \in Conns |-> FALSE]
    /\ player_id = [c \in Conns |-> None]
    /\ sockOpen = [c \in Conns |-> FALSE]
    /\ peerOpen = [c \in Conns |-> FALSE]
    /\ lock = None
    /\ apc = "accept"
    /\ accConn = 0
    /\ pc = [c \in Conns |-> "none"]
    /\ ctx = [c \in Conns |-> "none"]
    /\ snap = [c \in Conns |-> None]
    /\ cur = [c \in Conns |-> None]
    /\ wire = <<AcceptorThread, None, {}>>
    /\ nextConn = 1
    /\ msgCount = 0
    /\ outcome = "none"
    /\ ret = None

\* the branch of lines 168-191 a move takes
MoveOutcome(g, player, z, y, x) ==
    IF g.winner # None THEN "finished"
    ELSE IF player # g.current_player THEN "turn"
    ELSE IF ~(0 <= z /\ z < Size /\ 0 <= y /\ y < Size /\ 0 <= x /\ x < Size)
         THEN "bounds"
    ELSE IF g.board[<<z, y, x>>] # 0 THEN "occupied"
    ELSE "applied"

\* lines 167-191 on the game state: the early returns leave it alone
HandleMove(player, z, y, x) ==
    /\ IF MoveRejected(Game, player, z, y, x)
       THEN UNCHANGED gameVars
       ELSE \E g \in {MoveApplied(Game, player, z, y, x)} :
               /\ board' = g.board
               /\ current_player' = g.current_player
               /\ winner' = g.winner
               /\ last_move' = g.last_move

\* --------------------------------------------------------------- the server
\* the wire messages
InitMsg(pid) == <<"init", pid>>
ErrorMsg == <<"error", "Server full">>
StateMsg(g) == <<"state", g.board, g.current_player, g.winner, g.last_move>>

\* the lines a peer may send: moves (the claimed player, z, y, x), a line that
\* is not JSON, an object of another type, a move whose coordinates are not
\* numbers, and a JSON value that is not an object
MoveInputs == {<<1, 2, 3>>, <<0, 0, Size>>}
PeerLines ==
    {<<"move", p, m[1], m[2], m[3]>> : p \in Slots, m \in MoveInputs}
        \cup {<<"malformed">>, <<"unknown">>, <<"badmove">>, <<"nondict">>}

\* sock.sendall: TRUE when it returns, FALSE when it raises
Sendall(c) ==
    IF ~sockOpen[c] THEN {FALSE}
    ELSE IF peerOpen[c] THEN {TRUE}
    ELSE {TRUE, FALSE}

Registered(c) == \E i \in DOMAIN clients : clients[i] = c
Live(c) == Registered(c) /\ alive[c]

\* [c for c in seq if c in S]
Keep(seq, S) == SelectSeq(seq, LAMBDA c : c \in S)

\* a plausible slip: the fallback of _next_player_id taken as the rule
NextPlayerIdCount ==
    Cardinality({player_id[c][1] : c \in {d \in Conns : Live(d)}})

\* _next_player_id: the lowest slot no live record holds
NextPlayerId ==
    LET used == {player_id[c][1] : c \in {d \in Conns : Live(d)}}
    IN IF \E pid \in Slots : pid \notin used
       THEN CHOOSE pid \in Slots :
                pid \notin used /\ \A q \in Slots : q < pid => q \in used
       ELSE Cardinality(used)

\* line 70: the capacity test of _accept_loop
ServerFull == Len(clients) >= max_players

\* line 65: accept returns the next connection
Accept ==
    /\ apc = "accept"
    /\ nextConn <= MaxConns
    /\ accConn' = nextConn
    /\ nextConn' = nextConn + 1
    /\ sockOpen' = [sockOpen EXCEPT ![nextConn] = TRUE]
    /\ peerOpen' = [peerOpen EXCEPT ![nextConn] = TRUE]
    /\ apc' = "lock"
    /\ UNCHANGED <<gameVars, clients, alive, player_id, lock, pc, ctx, snap,
                   cur, wire, msgCount, outcome, ret>>

\* lines 69-78: under the lock, the registry is full: error message, close,
\* continue
Refuse ==
    /\ apc = "lock"
    /\ lock = None
    /\ ServerFull
    /\ \E ok \in Sendall(accConn) :
          wire' = <<AcceptorThread, ErrorMsg, IF ok THEN {accConn} ELSE {}>>
    /\ sockOpen' = [sockOpen EXCEPT ![accConn] = FALSE]
    /\ apc' = "accept"
    /\ UNCHANGED <<gameVars, clients, alive, player_id, peerOpen, lock,
                   accConn, pc, ctx, snap, cur, nextConn, msgCount, outcome,
                   ret>>

\* lines 69, 80-91: under the lock, assign a slot, register the record, start
\* its thread
Admit ==
    /\ apc = "lock"
    /\ lock = None
    /\ ~ServerFull
    /\ player_id' = [player_id EXCEPT ![accConn] = Some(NextPlayerId)]
    /\ alive' = [alive EXCEPT ![accConn] = TRUE]
    /\ clients' = Append(clients, accConn)
    /\ pc' = [pc EXCEPT ![accConn] = "init"]
    /\ apc' = "accept"
    /\ UNCHANGED <<gameVars, sockOpen, peerOpen, lock, accConn, ctx, snap,
                   cur, wire, nextConn, msgCount, outcome, ret>>

\* lines 107-114: the init message, a failed write is ignored; then the call
\* of _broadcast_state
SendInit(c) ==
    /\ pc[c] = "init"
    /\ \E ok \in Sendall(c) :
          wire' = <<c, InitMsg(player_id[c][1]), IF ok THEN {c} ELSE {}>>
    /\ pc' = [pc EXCEPT ![c] = "snap"]
    /\ ctx' = [ctx EXCEPT ![c] = "join"]
    /\ UNCHANGED <<gameVars, clients, alive, player_id, sockOpen, peerOpen,
                   lock, apc, accConn, snap, cur, nextConn, msgCount, outcome,
                   ret>>

\* lines 200-207 of _broadcast_state: build and encode `state`
Snapshot(c) ==
    /\ pc[c] = "snap"
    /\ snap' = [snap EXCEPT ![c] = StateMsg(Game)]
    /\ pc' = [pc EXCEPT ![c] = "block"]
    /\ UNCHANGED <<gameVars, clients, alive, player_id, sockOpen, peerOpen,
                   lock, apc, accConn, ctx, cur, wire, nextConn, msgCount,
                   outcome, ret>>

\* line 209 of _broadcast_state: with self.lock (the lock is not reentrant)
BroadcastLock(c) ==
    /\ pc[c] = "block"
    /\ lock = None
    /\ lock' = Some(c)
    /\ pc' = [pc EXCEPT ![c] = "send"]
    /\ UNCHANGED <<gameVars, clients, alive, player_id, sockOpen, peerOpen,
                   apc, accConn, ctx, snap, cur, wire, nextConn, msgCount,
                   outcome, ret>>

\* where _broadcast_state returns to: the read loop after lines 114 and 194,
\* the end of the thread after line 154
AfterBroadcast(site) == IF site = "final" THEN "done" ELSE "recv"

\* a plausible slip: the try around the whole loop, so that the first write
\* that raises ends the delivery
IndexOf(seq, d) == CHOOSE i \in DOMAIN seq : seq[i] = d
BroadcastSendAbort(c) ==
    /\ pc[c] = "send"
    /\ \E failed \in SUBSET {d \in Conns : Live(d) /\ FALSE \in Sendall(d)} :
          /\ \A d \in Conns : (Live(d) /\ Sendall(d) = {FALSE}) => d \in failed
          /\ wire' = <<c, snap[c],
                       {d \in Conns : /\ Live(d)
                                      /\ \A f \in failed :
                                            IndexOf(clients, d) < IndexOf(clients, f)}>>
          /\ alive' = [d \in Conns |-> alive[d] /\ d \notin failed]
          /\ clients' = IF failed = {} THEN clients
                        ELSE Keep(clients, {d \in Conns : alive[d] /\ d \notin failed})
    /\ lock' = None
    /\ pc' = [pc EXCEPT ![c] = AfterBroadcast(ctx[c])]
    /\ snap' = [snap EXCEPT ![c] = None]
    /\ ctx' = [ctx EXCEPT ![c] = "none"]
    /\ UNCHANGED <<gameVars, player_id, sockOpen, peerOpen, apc, accConn, cur,
                   nextConn, msgCount, outcome, ret>>

\* lines 210-219: write to every live record of the list; a record whose
\* write raises is marked dead, and the dead records are dropped
BroadcastSend(c) ==
    /\ pc[c] = "send"
    /\ \E failed \in SUBSET {d \in Conns : Live(d) /\ FALSE \in Sendall(d)} :
          /\ \A d \in Conns : (Live(d) /\ Sendall(d) = {FALSE}) => d \in failed
          /\ wire' = <<c, snap[c], {d \in Conns : Live(d) /\ d \notin failed}>>
          /\ alive' = [d \in Conns |-> alive[d] /\ d \notin failed]
          /\ clients' = IF failed = {} THEN clients
                        ELSE Keep(clients, {d \in Conns : alive[d] /\ d \notin failed})
    /\ lock' = None
    /\ pc' = [pc EXCEPT ![c] = AfterBroadcast(ctx[c])]
    /\ snap' = [snap EXCEPT ![c] = None]
    /\ ctx' = [ctx EXCEPT ![c] = "none"]
    /\ UNCHANGED <<gameVars, player_id, sockOpen, peerOpen, apc, accConn, cur,
                   nextConn, msgCount, outcome, ret>>

\* lines 118-138: the read loop takes one line from the peer; a line that is
\* not JSON, of another type, or with bad coordinates is skipped; a move goes
\* on to line 167
Recv(c) ==
    /\ pc[c] = "recv"
    /\ sockOpen[c]
    /\ peerOpen[c]
    /\ msgCount < MaxMsgs
    /\ \E m \in PeerLines \ {<<"nondict">>} :
          /\ cur' = [cur EXCEPT ![c] = IF m[1] = "move" THEN m ELSE None]
          /\ pc' = [pc EXCEPT ![c] = IF m[1] = "move" THEN "mlock" ELSE "recv"]
    /\ msgCount' = msgCount + 1
    /\ UNCHANGED <<gameVars, clients, alive, player_id, sockOpen, peerOpen,
                   lock, apc, accConn, ctx, snap, wire, nextConn, outcome, ret>>

\* a plausible slip: the game is reset when a player leaves
RecvEndReset(c) ==
    /\ pc[c] = "recv"
    /\ ~alive[c] \/ ~peerOpen[c] \/ ~sockOpen[c]
    /\ alive' = [alive EXCEPT ![c] = FALSE]
    /\ sockOpen' = [sockOpen EXCEPT ![c] = FALSE]
    /\ pc' = [pc EXCEPT ![c] = "remove"]
    /\ board' = EmptyBoard
    /\ current_player' = 0
    /\ winner' = None
    /\ last_move' = None
    /\ UNCHANGED <<clients, player_id, peerOpen, lock, apc, accConn,
                   ctx, snap, cur, wire, nextConn, msgCount, outcome, ret>>

\* lines 118-121, 139-148: the loop ends: the record is dead, the peer closed
\* the stream, or the read raised; the handler marks its record dead and
\* closes the socket
RecvEnd(c) ==
    /\ pc[c] = "recv"
    /\ ~alive[c] \/ ~peerOpen[c] \/ ~sockOpen[c]
    /\ alive' = [alive EXCEPT ![c] = FALSE]
    /\ sockOpen' = [sockOpen EXCEPT ![c] = FALSE]
    /\ pc' = [pc EXCEPT ![c] = "remove"]
    /\ UNCHANGED <<gameVars, clients, player_id, peerOpen, lock, apc, accConn,
                   ctx, snap, cur, wire, nextConn, msgCount, outcome, ret>>

\* lines 134, 138-148, 157: the line read is a JSON value that is not an
\* object: message.get raises in _handle_message, which ends the read loop
RecvBad(c) ==
    /\ pc[c] = "recv"
    /\ sockOpen[c]
    /\ peerOpen[c]
    /\ msgCount < MaxMsgs
    /\ <<"nondict">> \in PeerLines
    /\ msgCount' = msgCount + 1
    /\ alive' = [alive EXCEPT ![c] = FALSE]
    /\ sockOpen' = [sockOpen EXCEPT ![c] = FALSE]
    /\ pc' = [pc EXCEPT ![c] = "remove"]
    /\ UNCHANGED <<gameVars, clients, player_id, peerOpen, lock, apc, accConn,
                   ctx, snap, cur, wire, nextConn, outcome, ret>>

\* lines 166-194 and 200-207: under the lock, a rejected move returns and
\* releases the lock; an accepted move is applied and _broadcast_state is
\* called with the lock still held: it builds `state` and goes on to line 209
Move(c) ==
    /\ pc[c] = "mlock"
    /\ lock = None
    /\ HandleMove(player_id[c][1], cur[c][3], cur[c][4], cur[c][5])
    /\ IF MoveRejected(Game, player_id[c][1], cur[c][3], cur[c][4], cur[c][5])
       THEN /\ lock' = None
            /\ pc' = [pc EXCEPT ![c] = "recv"]
            /\ UNCHANGED <<ctx, snap>>
       ELSE /\ lock' = Some(c)
            /\ pc' = [pc EXCEPT ![c] = "block"]
            /\ ctx' = [ctx EXCEPT ![c] = "move"]
            /\ snap' = [snap EXCEPT ![c] =
                           <<"state", board', current_player', winner',
                             last_move'>>]
    /\ cur' = [cur EXCEPT ![c] = None]
    /\ UNCHANGED <<clients, alive, player_id, sockOpen, peerOpen, apc,
                   accConn, wire, nextConn, msgCount, outcome, ret>>

\* lines 149-154: under the lock, drop the record from the list; then the
\* call of the final _broadcast_state
Remove(c) ==
    /\ pc[c] = "remove"
    /\ lock = None
    /\ clients' = Keep(clients, Conns \ {c})
    /\ pc' = [pc EXCEPT ![c] = "snap"]
    /\ ctx' = [ctx EXCEPT ![c] = "final"]
    /\ UNCHANGED <<gameVars, alive, player_id, sockOpen, peerOpen, lock, apc,
                   accConn, snap, cur, wire, nextConn, msgCount, outcome, ret>>

\* the peer of a connection the server has not closed closes its end
PeerClose(c) ==
    /\ sockOpen[c]
    /\ peerOpen[c]
    /\ peerOpen' = [peerOpen EXCEPT ![c] = FALSE]
    /\ UNCHANGED <<gameVars, clients, alive, player_id, sockOpen, lock, apc,
                   accConn, pc, ctx, snap, cur, wire, nextConn, msgCount,
                   outcome, ret>>

Next ==
    \/ Accept
    \/ Refuse
    \/ Admit
    \/ \E c \in Conns : SendInit(c)
    \/ \E c \in Conns : Snapshot(c)
    \/ \E c \in Conns : BroadcastLock(c)
    \/ \E c \in Conns : BroadcastSend(c)
    \/ \E c \in Conns : Recv(c)
    \/ \E c \in Conns : RecvEnd(c)
    \/ \E c \in Conns : RecvBad(c)
    \/ \E c \in Conns : Move(c)
    \/ \E c \in Conns : Remove(c)
    \/ \E c \in Conns : PeerClose(c)

Spec == Init /\ [][Next]_vars

\* Every thread of the server that can take a step eventually takes one: the
\* threads are scheduled by the operating system, and a thread waiting for a
\* lock that is free gets it.  What the peers do is left to them.
HandlerStep(c) ==
    \/ SendInit(c)
    \/ Snapshot(c)
    \/ BroadcastLock(c)
    \/ BroadcastSend(c)
    \/ RecvEnd(c)
    \/ Move(c)
    \/ Remove(c)

FairSpec ==
    /\ Spec
    /\ WF_vars(Refuse \/ Admit)
    /\ \A c \in Conns : WF_vars(HandlerStep(c))

\* ----------------------------------------------------------------- RaceSpec
\* Spec with _handle_message taken statement by statement: the acquisition of
\* the lock (line 167), the four tests (lines 168-180), the writes (lines
\* 183-191) followed by the call of _broadcast_state (line 194)

\* a plausible slip: the tests and the writes without `with self.lock`
MoveAcquireNoLock(c) ==
    /\ pc[c] = "mlock"
    /\ pc' = [pc EXCEPT ![c] = "mcheck"]
    /\ UNCHANGED <<gameVars, clients, alive, player_id, sockOpen, peerOpen,
                   lock, apc, accConn, ctx, snap, cur, wire, nextConn,
                   msgCount, outcome, ret>>

\* line 167: with self.lock
MoveAcquire(c) ==
    /\ pc[c] = "mlock"
    /\ lock = None
    /\ lock' = Some(c)
    /\ pc' = [pc EXCEPT ![c] = "mcheck"]
    /\ UNCHANGED <<gameVars, clients, alive, player_id, sockOpen, peerOpen,
                   apc, accConn, ctx, snap, cur, wire, nextConn, msgCount,
                   outcome, ret>>

\* lines 168-180: a move that fails a test returns, which releases the lock
MoveValidate(c) ==
    /\ pc[c] = "mcheck"
    /\ IF MoveRejected(Game, player_id[c][1], cur[c][3], cur[c][4], cur[c][5])
       THEN /\ lock' = None
            /\ pc' = [pc EXCEPT ![c] = "recv"]
            /\ cur' = [cur EXCEPT ![c] = None]
       ELSE /\ pc' = [pc EXCEPT ![c] = "mwrite"]
            /\ UNCHANGED <<lock, cur>>
    /\ UNCHANGED <<gameVars, clients, alive, player_id, sockOpen, peerOpen,
                   apc, accConn, ctx, snap, wire, nextConn, msgCount, outcome,
                   ret>>

\* lines 183-194 and 200-207: the mark, last_move, the winner or the turn;
\* then _broadcast_state builds `state` and goes on to line 209
MoveWrite(c) ==
    /\ pc[c] = "mwrite"
    /\ \E g \in {MoveApplied(Game, player_id[c][1], cur[c][3], cur[c][4],
                              cur[c][5])} :
          /\ board' = g.board
          /\ current_player' = g.current_player
          /\ winner' = g.winner
          /\ last_move' = g.last_move
          /\ snap' = [snap EXCEPT ![c] = StateMsg(g)]
    /\ pc' = [pc EXCEPT ![c] = "block"]
    /\ ctx' = [ctx EXCEPT ![c] = "move"]
    /\ cur' = [cur EXCEPT ![c] = None]
    /\ UNCHANGED <<clients, alive, player_id, sockOpen, peerOpen, lock, apc,
                   accConn, wire, nextConn, msgCount, outcome, ret>>

RaceNext ==
    \/ Accept
    \/ Refuse
    \/ Admit
    \/ \E c \in Conns : SendInit(c)
    \/ \E c \in Conns : Snapshot(c)
    \/ \E c \in Conns : BroadcastLock(c)
    \/ \E c \in Conns : BroadcastSend(c)
    \/ \E c \in Conns : Recv(c)
    \/ \E c \in Conns : RecvEnd(c)
    \/ \E c \in Conns : RecvBad(c)
    \/ \E c \in Conns : MoveAcquire(c)
    \/ \E c \in Conns : MoveValidate(c)
    \/ \E c \in Conns : MoveWrite(c)
    \/ \E c \in Conns : Remove(c)
    \/ \E c \in Conns : PeerClose(c)

RaceSpec == Init /\ [][RaceNext]_vars

\* -------------------------------------------------------------- ScenarioSpec
\* Scenario A: the peers connect and stay; the two admitted play: player 0
\* the row (0, 0, .), player 1 cells of the row (1, 1, .) in between; a peer
\* sends its next move when the turn is its own
Script ==
    << <<0, 0, 0, 0>>, <<1, 1, 1, 0>>, <<0, 0, 0, 1>>, <<1, 1, 1, 1>>,
       <<0, 0, 0, 2>>, <<1, 1, 1, 2>>, <<0, 0, 0, 3>> >>

ScriptRecv(c) ==
    /\ pc[c] = "recv"
    /\ Len(clients) = max_players
    /\ msgCount < Len(Script)
    /\ LET m == Script[msgCount + 1]
       IN /\ player_id[c] = Some(m[1])
          /\ current_player = m[1]
          /\ cur' = [cur EXCEPT ![c] = <<"move", m[1], m[2], m[3], m[4]>>]
    /\ pc' = [pc EXCEPT ![c] = "mlock"]
    /\ msgCount' = msgCount + 1
    /\ UNCHANGED <<gameVars, clients, alive, player_id, sockOpen, peerOpen,
                   lock, apc, accConn, ctx, snap, wire, nextConn, outcome, ret>>

ScenarioNext ==
    \/ Accept
    \/ Refuse
    \/ Admit
    \/ \E c \in Conns : SendInit(c)
    \/ \E c \in Conns : Snapshot(c)
    \/ \E c \in Conns : BroadcastLock(c)
    \/ \E c \in Conns : BroadcastSend(c)
    \/ \E c \in Conns : ScriptRecv(c)
    \/ \E c \in Conns : Move(c)

ScenarioSpec ==
    /\ Init
    /\ [][ScenarioNext]_vars
    /\ WF_vars(Accept)
    /\ WF_vars(Refuse \/ Admit)
    /\ \A c \in Conns : WF_vars(HandlerStep(c) \/ ScriptRecv(c))

\* ----------------------------------------------------------------- GameSpec
\* the cells the moves of GameSpec target: the rows (0, 0, .) and (1, 1, .)
GameCells == {c \in Cells : c[1] = c[2] /\ c[1] < 2}
GameInputs == GameCells \cup {<<Size, 0, 0>>, <<0, -1, 0>>}

\* _handle_message for the handler of slot `player` and the move (z, y, x)
GameMove(player, z, y, x) ==
    /\ HandleMove(player, z, y, x)
    /\ outcome' = MoveOutcome(Game, player, z, y, x)
    /\ UNCHANGED <<netVars, ret>>

GameNext == \E player \in Slots : \E m \in GameInputs :
                GameMove(player, m[1], m[2], m[3])

GameSpec == Init /\ [][GameNext]_vars

\* ------------------------------------------------------------------- CwSpec
\* a full board on which no line is owned by one player
DrawRows ==
    << <<-1, -1, 1, -1>>, <<1, -1, 1, 1>>, <<-1, -1, 1, 1>>, <<-1, 1, -1, -1>>,
       <<-1, -1, 1, -1>>, <<1, 1, -1, -1>>, <<1, -1, -1, -1>>, <<1, 1, -1, 1>>,
       <<1, 1, -1, 1>>, <<1, 1, -1, 1>>, <<1, -1, -1, 1>>, <<-1, -1, 1, -1>>,
       <<1, -1, 1, 1>>, <<-1, 1, -1, -1>>, <<-1, 1, 1, 1>>, <<1, -1, 1, -1>> >>
DrawBoard == [c \in Cells |-> DrawRows[c[1] * Size + c[2] + 1][c[3] + 1]]

Steps == {-1, 0, 1} \X {-1, 0, 1} \X {-1, 0, 1}

\* the 4 cells from s in direction d, wrapping around the edges of the cube
Segment(s, d) ==
    {<<(s[1] + i * d[1]) % Size, (s[2] + i * d[2]) % Size,
       (s[3] + i * d[3]) % Size>> : i \in Coord}

Paint(b, cells, v) == [c \in Cells |-> IF c \in cells THEN v ELSE b[c]]

\* a second group of cells for the other mark: nothing, or the row (3, 3, .)
Extras == {{}, {c \in Cells : c[1] = Size - 1 /\ c[2] = Size - 1}}

\* the boards _check_winner is applied to: the empty or the drawn board with
\* one segment painted in one mark, and possibly the row (3, 3, .) in the other
CwBoards ==
    {Paint(Paint(base, e, 0 - v), Segment(s, d), v) :
        base \in {EmptyBoard, DrawBoard}, e \in Extras,
        s \in Cells, d \in Steps, v \in {-1, 1}}

CwInit ==
    /\ board \in CwBoards
    /\ current_player = 0
    /\ winner = None
    /\ last_move = None
    /\ clients = <<>>
    /\ alive = [c \in Conns |-> FALSE]
    /\ player_id = [c \in Conns |-> None]
    /\ sockOpen = [c \in Conns |-> FALSE]
    /\ peerOpen = [c \in Conns |-> FALSE]
    /\ lock = None
    /\ apc = "accept"
    /\ accConn = 0
    /\ pc = [c \in Conns |-> "none"]
    /\ ctx = [c \in Conns |-> "none"]
    /\ snap = [c \in Conns |-> None]
    /\ cur = [c \in Conns |-> None]
    /\ wire = <<AcceptorThread, None, {}>>
    /\ nextConn = 1
    /\ msgCount = 0
    /\ outcome = "none"
    /\ ret = None

\* one call of _check_winner
CwCall ==
    /\ ret = None
    /\ ret' = Some(CheckWinner(board))
    /\ UNCHANGED <<gameVars, netVars, outcome>>

CwSpec == CwInit /\ [][CwCall]_vars

\* the straight lines of the cube, from geometry: 4 cells in range, each one
\* step from the previous in a fixed non-zero direction
InCube(c) == c[1] \in Coord /\ c[2] \in Coord /\ c[3] \in Coord
Along(s, d) == {<<s[1] + i * d[1], s[2] + i * d[2], s[3] + i * d[3]>> : i \in Coord}
GeoLines ==
    {Along(s, d) : s \in Cells, d \in Steps \ {<<0, 0, 0>>}}
        \cap SUBSET Cells
\* the number of axes along which the cells of a line differ
Axes(l) == Cardinality({k \in 1 .. 3 : \E a, b \in l : a[k] # b[k]})
Owns(b, p) == \E l \in GeoLines : \A c \in l : b[c] = Mark(p)

\* =================================================================== claims
LiveCount == Cardinality({d \in Conns : Live(d)})
InRange(m) == InCube(m)

\* C1: after a handler has applied a move, a state message that carries the
\* game state with that move is eventually written by that handler to every
\* connection that is live in the registry.
C1_MoveIsBroadcast ==
    \A h \in Conns :
        (pc[h] = "block" /\ ctx[h] = "move")
            ~> (/\ wire[1] = h
                /\ wire[2] = StateMsg(Game)
                /\ \A d \in Conns : Live(d) => d \in wire[3])

\* C2: a move with a coordinate outside [0, 4), or onto a cell that is not
\* empty, or by a slot that is not current_player, is rejected: board,
\* current_player, winner and last_move stay as they were.
C2_RejectedMoveKeepsState ==
    [][\A p \in Slots : \A m \in GameInputs :
          (/\ \/ ~InRange(m)
              \/ p # current_player
              \/ InRange(m) /\ board[m] # 0
           /\ GameMove(p, m[1], m[2], m[3]))
          => (UNCHANGED gameVars /\ outcome' # "applied")]_vars

C2_Witness ==
    /\ outcome = "occupied"
    /\ \E c \in GameCells : board[c] # 0

\* C3: an accepted move after which no line of the cube is owned by one
\* player flips current_player to the other slot and leaves winner unset.
C3_AcceptedMoveFlipsTurn ==
    [][(board' # board /\ ~Owns(board', 0) /\ ~Owns(board', 1))
          => (current_player' = 1 - current_player /\ winner' = None)]_vars

C3_Witness ==
    /\ outcome = "applied"
    /\ winner = None
    /\ last_move # None
    /\ current_player = 1 - last_move[1]
    /\ Cardinality({c \in Cells : board[c] # 0}) >= 3

\* C4: once winner is set, no step changes winner, board, current_player or
\* last_move, and every move made then is rejected as "game finished".
C4_WinnerIsFinal ==
    [][winner # None => (UNCHANGED gameVars /\ outcome' = "finished")]_vars

C4_Witness ==
    /\ winner # None
    /\ outcome = "finished"

\* C5: in scenario A every move is accepted, and after player 0's fourth
\* placement winner is 0, with current_player left at 0.
C5_ScenarioA ==
    <>(/\ winner = Some(0)
       /\ current_player = 0
       /\ \A i \in DOMAIN Script :
             board[<<Script[i][2], Script[i][3], Script[i][4]>>] = Mark(Script[i][1]))

\* C6: the cube has 76 distinct straight lines (48 along an axis, 24 face
\* diagonals, 4 space diagonals), _check_winner scans exactly these, and it
\* returns a player who owns a line when some line is owned (the player, when
\* only one player owns a line) and none when no line is owned.
C6_CheckWinnerExact ==
    /\ Cardinality(GeoLines) = 76
    /\ Cardinality({l \in GeoLines : Axes(l) = 1}) = 48
    /\ Cardinality({l \in GeoLines : Axes(l) = 2}) = 24
    /\ Cardinality({l \in GeoLines : Axes(l) = 3}) = 4
    /\ Len(Lines) = 76
    /\ {Range(Lines[i]) : i \in DOMAIN Lines} = GeoLines
    /\ ret # None =>
          /\ (ret[1] = None) <=> (~Owns(board, 0) /\ ~Owns(board, 1))
          /\ \A p \in Slots : ret[1] = Some(p) => Owns(board, p)
          /\ \A p \in Slots : (Owns(board, p) /\ ~Owns(board, 1 - p))
                                  => ret[1] = Some(p)

\* a full board without an owned line, for which none was returned
C6_Witness ==
    /\ ret = Some(None)
    /\ \A c \in Cells : board[c] # 0

\* C7: a connection accepted while max_players connections are live is
\* eventually turned away (the acceptor is back at accept with the connection
\* closed, given no slot, no registry entry and no handler), unless a live
\* connection has gone by then.
Refused(c) ==
    /\ pc[c] = "none"
    /\ c < nextConn
    /\ c = accConn => apc = "accept"

C7_FullServerRefuses ==
    \A c \in Conns :
        (accConn = c /\ apc = "lock" /\ LiveCount >= max_players)
            ~> \/ LiveCount < max_players
               \/ /\ Refused(c)
                  /\ ~sockOpen[c]
                  /\ player_id[c] = None
                  /\ ~Registered(c)

\* C8: when the acceptor decides on a connection while fewer than max_players
\* connections are live, it registers it with the lowest slot of
\* [0, max_players) that no live connection holds.
LowestFreeSlot ==
    CHOOSE s \in Slots :
        /\ \A d \in Conns : Live(d) => player_id[d] # Some(s)
        /\ \A t \in Slots : t < s => \E d \in Conns : Live(d) /\ player_id[d] = Some(t)

C8_AdmitsBelowCapacity ==
    [][(apc = "lock" /\ apc' = "accept" /\ LiveCount < max_players)
          => /\ player_id'[accConn] = Some(LowestFreeSlot)
             /\ clients' = Append(clients, accConn)
             /\ alive'[accConn]]_vars

\* C9: no two live connections of the registry hold the same slot, and every
\* assigned slot is in [0, max_players).
C9_SlotsDistinct ==
    /\ \A c, d \in Conns :
          (Live(c) /\ Live(d) /\ c # d) => player_id[c] # player_id[d]
    /\ \A c \in Conns : player_id[c] # None => player_id[c][1] \in Slots

\* both slots held by live connections, slot 0 by one that took it over
C9_Witness ==
    \E c, d \in Conns :
        /\ c < d
        /\ Live(c) /\ Live(d)
        /\ player_id[c] = Some(1)
        /\ player_id[d] = Some(0)

\* C10: a handler whose connection has ended eventually has its record out of
\* the registry, has written its final state message, and has exited.
C10_HandlerCleansUp ==
    \A c \in Conns :
        (pc[c] = "remove")
            ~> (/\ pc[c] = "done"
                /\ ~Registered(c)
                /\ wire[1] = c
                /\ wire[2][1] = "state")

\* C11: in a broadcast, the connections whose write fails are the only ones
\* marked dead and the only ones removed from the registry; every other live
\* connection of the registry is sent the same message and stays registered.
BroadcastBy(c) == pc[c] = "send" /\ pc'[c] # "send"
FailedIn == {d \in Conns : alive[d] /\ ~alive'[d]}

C11_OnlyFailedRemoved ==
    [][\A c \in Conns : BroadcastBy(c) =>
          /\ Range(clients') = Range(clients) \ FailedIn
          /\ \A d \in Conns : (Live(d) /\ d \notin FailedIn)
                                  => (Live(d)' /\ d \in wire'[3])]_vars

\* C11, as the code has it: the connections whose write fails are the only
\* ones marked dead; when a write fails, they and the records that were
\* already marked dead are removed from the registry, and no other; every
\* other live connection is sent the same message and stays registered.
C11_FailureIsolated ==
    [][\A c \in Conns : BroadcastBy(c) =>
          /\ FailedIn \subseteq {d \in Conns : Live(d)}
          /\ Range(clients') =
                IF FailedIn = {} THEN Range(clients)
                ELSE {d \in Range(clients) : alive[d]} \ FailedIn
          /\ wire' = <<c, snap[c], {d \in Conns : Live(d)} \ FailedIn>>
          /\ \A d \in Conns : (Live(d) /\ d \notin FailedIn)
                                  => (Live(d)' /\ d \in wire'[3])]_vars

\* a broadcast has just pruned a connection whose handler still reads, and
\* has reached another connection, which is live
C11_Witness ==
    /\ wire[1] \in Conns
    /\ wire[2] # None /\ wire[2][1] = "state"
    /\ \E d \in Conns : pc[d] = "recv" /\ ~alive[d] /\ ~Registered(d)
    /\ \E e \in wire[3] : e # wire[1] /\ Live(e)

\* C12: a state message is written only to connections whose handler has
\* already written their init message, and a handler writes the init message
\* with its own slot once, as its first step.
C12_InitBeforeState ==
    [][/\ \A c \in Conns : BroadcastBy(c) =>
              \A d \in wire'[3] : pc[d] # "init"
       /\ \A c \in Conns : (pc[c] = "init" /\ pc'[c] # "init") =>
              wire' = <<c, InitMsg(player_id[c][1]), {c}>> \/ ~peerOpen[c]
       /\ \A c \in Conns : (wire' # wire /\ wire'[2] # None /\ wire'[2][1] = "init")
              => pc[c] = "init" \/ wire'[1] # c]_vars

\* C13: a move whose claimed player differs from the slot of the handler
\* that received it changes nothing of the game state and starts no
\* broadcast: the handler goes back to reading.
C13_ForeignSlotRejected ==
    [][\A c \in Conns :
          (pc[c] = "mlock" /\ pc'[c] # "mlock" /\ cur[c][2] # player_id[c][1])
              => (UNCHANGED gameVars /\ pc'[c] = "recv")]_vars

\* C14: a handler that reads a line which is not a move with numeric
\* coordinates (not JSON, another type, another shape) stays in its read loop
\* with its connection open and its record alive, and the game state is
\* unchanged.
C14_BadLineIsSkipped ==
    [][\A c \in Conns :
          (pc[c] = "recv" /\ msgCount' = msgCount + 1 /\ pc'[c] # "mlock")
              => /\ pc'[c] = "recv"
                 /\ alive'[c] = alive[c]
                 /\ sockOpen'[c]
                 /\ UNCHANGED gameVars]_vars

\* C15: a handler that holds the lock for a move eventually releases it, and
\* whenever the lock is held it is eventually free again.
C15_MoveReleasesLock ==
    /\ \A c \in Conns : (lock = Some(c) /\ ctx[c] = "move") ~> (lock # Some(c))
    /\ (lock # None) ~> (lock = None)

\* C16: no thread writes to a connection while it holds the lock.
C16_NoWriteUnderLock ==
    [][wire' # wire => lock # Some(wire'[1])]_vars

\* C17: at most one handler is between the first test and the last write of
\* _handle_message, that handler holds the lock, nothing but its own writes
\* changes the game state in between, and a cell that holds a mark keeps it:
\* a cell only ever goes from empty to the mark of the mover.
InMove(c) == pc[c] \in {"mcheck", "mwrite"}

C17_MoveIsAtomic ==
    /\ [](\A c \in Conns : InMove(c) =>
             /\ lock = Some(c)
             /\ \A d \in Conns : InMove(d) => d = c)
    /\ [][/\ \A c \in Conns : (InMove(c) /\ pc'[c] = pc[c]) => UNCHANGED gameVars
          /\ \A cell \in Cells :
                board'[cell] # board[cell] =>
                    /\ board[cell] = 0
                    /\ \E c \in Conns :
                          /\ pc[c] = "mwrite"
                          /\ board'[cell] = Mark(player_id[c][1])]_vars

\* a handler has passed the tests and is about to write, while another
\* handler with a move of its own waits for the lock
C17_Witness ==
    \E c, d \in Conns :
        /\ c # d
        /\ pc[c] = "mwrite"
        /\ pc[d] = "mlock"
        /\ cur[d] # None

\* C18: the state a handler has built after its move is the game state as of
\* that move for as long as it is not sent, and it is eventually sent by that
\* handler; and a state message with a move is never followed, on the wire,
\* by a state message that lacks a mark of the earlier one.
C18_MoveStateInOrder ==
    /\ [](\A h \in Conns : (pc[h] \in {"block", "send"} /\ ctx[h] = "move")
                                => snap[h] = StateMsg(Game))
    /\ [][(wire' # wire /\ wire[2] # None /\ wire[2][1] = "state"
              /\ wire'[2][1] = "state")
             => \A cell \in Cells :
                   wire[2][2][cell] # 0 => wire'[2][2][cell] = wire[2][2][cell]]_vars
    /\ \A h \in Conns :
          (pc[h] = "block" /\ ctx[h] = "move")
              ~> (pc[h] = "recv" /\ wire[1] = h /\ wire[2][1] = "state"
                    /\ wire[2][5] = last_move)

\* C19: a step in which a record is marked dead, a record leaves the
\* registry or the server closes a connection leaves board, current_player,
\* winner and last_move as they were.
C19_DepartureKeepsGame ==
    [][(\E c \in Conns :
           \/ (alive[c] /\ ~alive'[c])
           \/ (Registered(c) /\ ~Registered(c)')
           \/ (sockOpen[c] /\ ~sockOpen'[c]))
          => UNCHANGED gameVars]_vars

\* a player has left in the middle of a game: its record is dead, its socket
\* closed, and the mark of the last move is on the board
C19_Witness ==
    /\ last_move # None
    /\ board[<<last_move[2], last_move[3], last_move[4]>>] = Mark(last_move[1])
    /\ \E c \in Conns : pc[c] = "remove" /\ ~alive[c] /\ ~sockOpen[c]

\* C20: the game state is changed only by the handler of a connection that
\* is in the registry and alive; a handler whose record was marked dead and
\* removed applies no move.
C20_DeadHandlerAppliesNothing ==
    [][gameVars' # gameVars =>
          \E c \in Conns : pc[c] = "mlock" /\ pc'[c] = "block" /\ Live(c)]_vars

====
